---- MODULE Spec2Model ----
(***************************************************************************)
(* A model of fetch_recent_content.py: the source factory, the article     *)
(* filter, the articles writer, the README updater and main.               *)
(*                                                                         *)
(* Text is a sequence of one-character strings, so that find, slicing and  *)
(* strip are computed on characters as Python computes them.  A list is a  *)
(* sequence; an article is a record whose metric fields may be absent.     *)
(***************************************************************************)
EXTENDS Integers, Sequences, FiniteSets, TLC

VARIABLES
    readme,           \* the README content held by the repository
    readme_content,   \* update(): the content read at line 122
    recent_articles,  \* the content of the articles file
    update_result,    \* how the last update() ended
    runs,             \* the number of update() calls so far
    articles,         \* ArticleFilter: the list passed in
    top_n,            \* ArticleFilter: the count passed in
    filtered,         \* ArticleFilter: the list returned
    filter_op,        \* ArticleFilter: the method that was called
    url,              \* SourceFactory.create_source: the URL passed in
    source,           \* SourceFactory.create_source: the value returned
    feed_urls,        \* main: the URLs passed in
    article_limit,    \* main: the limit passed in
    article_type,     \* main: the type passed in
    pc,               \* main: the statement it is at
    sources,          \* main: the sources left after line 162
    fetched,          \* main: what each fetch_articles() call returned, in call order
    all_articles,     \* main: the aggregate
    readme_writes     \* the number of update_file calls the repository accepted

spliceVars == <<readme, readme_content, recent_articles, update_result, runs>>
filterVars == <<articles, top_n, filtered, filter_op>>
factoryVars == <<url, source>>
mainVars == <<feed_urls, article_limit, article_type, pc, sources, fetched, all_articles>>
vars == <<spliceVars, filterVars, factoryVars, mainVars, readme_writes>>

-----------------------------------------------------------------------------
(* Bounds of the model.                                                    *)

\* a README is made of at most this many pieces (a marker or a character)
MaxDocSegs == 4
\* an articles file is made of at most this many pieces
MaxTextSegs == 1
\* update() is called at most this many times in a behaviour
MaxRuns == 2

-----------------------------------------------------------------------------
(* Python's built-ins, as the code uses them.                              *)

Min(a, b) == IF a < b THEN a ELSE b
Max(a, b) == IF a > b THEN a ELSE b

\* s[:k]: a negative k counts from the end; the bound is clamped to the length
SliceTo(s, k) ==
    LET stop == IF k < 0 THEN Max(Len(s) + k, 0) ELSE Min(k, Len(s))
    IN  SubSeq(s, 1, stop)

\* s[k:]
SliceFrom(s, k) ==
    LET start == IF k < 0 THEN Max(Len(s) + k, 0) ELSE Min(k, Len(s))
    IN  SubSeq(s, start + 1, Len(s))

\* str.find: the lowest 0-based index at which sub occurs in s, or -1
Find(s, sub) ==
    LET at == {i \in 0..(Len(s) - Len(sub)) : SubSeq(s, i + 1, i + Len(sub)) = sub}
    IN  IF at = {} THEN -1 ELSE CHOOSE i \in at : \A j \in at : i <= j

\* `sub in s`
Contains(s, sub) == Find(s, sub) # -1

Whitespace == {" ", "\n", "\t", "\r"}

\* str.lstrip, str.rstrip, str.strip with no argument
LStrip(s) ==
    LET keep == {i \in 1..Len(s) : s[i] \notin Whitespace}
    IN  IF keep = {} THEN <<>>
        ELSE SubSeq(s, CHOOSE i \in keep : \A j \in keep : i <= j, Len(s))

RStrip(s) ==
    LET keep == {i \in 1..Len(s) : s[i] \notin Whitespace}
    IN  IF keep = {} THEN <<>>
        ELSE SubSeq(s, 1, CHOOSE i \in keep : \A j \in keep : i >= j)

Strip(s) == RStrip(LStrip(s))

\* the sequences over S of length at most n
SeqsUpTo(S, n) == UNION {[1..k -> S] : k \in 0..n}

RECURSIVE Flatten(_)
Flatten(ss) == IF ss = <<>> THEN <<>> ELSE Head(ss) \o Flatten(Tail(ss))

-----------------------------------------------------------------------------
(* ReadmeUpdater.update                                                    *)

start_marker ==
    <<"<", "!", "-", "-", " ", "A", "R", "T", "I", "C", "L", "E", "S", " ", "-", "-", ">">>
end_marker ==
    <<"<", "!", "-", "-", " ", "/", "A", "R", "T", "I", "C", "L", "E", "S", " ", "-", "-", ">">>

\* the index of the start marker itself, its length not added
start_idx_at_marker(content) == Find(content, start_marker)

start_idx(content) == Find(content, start_marker) + Len(start_marker)
end_idx(content) == Find(content, end_marker)

\* the test of line 130
MarkersNotFound(content) == start_idx(content) = -1 \/ end_idx(content) = -1

\* the new content with the head trimmed on the right only and the tail on the
\* left only
updated_content_one_side(content, recent) ==
    RStrip(SliceTo(content, start_idx(content))) \o <<"\n", "\n">> \o
    Strip(recent) \o <<"\n">> \o
    LStrip(SliceFrom(content, end_idx(content)))

\* the expression of lines 136-138
updated_content(content, recent) ==
    Strip(SliceTo(content, start_idx(content))) \o <<"\n", "\n">> \o
    Strip(recent) \o <<"\n">> \o
    Strip(SliceFrom(content, end_idx(content)))

\* update(): read the README, raise when the test of line 130 says so, else
\* build the new content and hand it to the repository, which may refuse it
UpdateCall ==
    /\ runs' = runs + 1
    /\ readme_content' = readme
    /\ \/ /\ MarkersNotFound(readme)
          /\ update_result' = "ValueError"
          /\ readme' = readme
          /\ readme_writes' = readme_writes
       \/ /\ ~MarkersNotFound(readme)
          /\ update_result' = "updated"
          /\ readme' = updated_content(readme, recent_articles)
          /\ readme_writes' = readme_writes + 1
       \/ /\ ~MarkersNotFound(readme)
          /\ update_result' = "GithubException"
          /\ readme' = readme
          /\ readme_writes' = readme_writes
    /\ UNCHANGED recent_articles

\* update() called on its own, again and again
Update ==
    /\ runs < MaxRuns
    /\ UpdateCall
    /\ UNCHANGED <<filterVars, factoryVars, mainVars>>

\* the pieces a README or an articles file of the model is made of
TextPieces == {start_marker, end_marker, <<"x">>, <<" ">>}

FilterIdle ==
    articles = <<>> /\ top_n = 0 /\ filtered = <<>> /\ filter_op = "none"
FactoryIdle == url = <<>> /\ source = [kind |-> "unset"]
MainIdle ==
    /\ feed_urls = <<>> /\ article_limit = 0 /\ article_type = "none" /\ pc = "idle"
    /\ sources = <<>> /\ fetched = <<>> /\ all_articles = <<>>

InitSplice ==
    /\ \E ss \in SeqsUpTo(TextPieces, MaxDocSegs) : readme = Flatten(ss)
    /\ \E ss \in SeqsUpTo(TextPieces, MaxTextSegs) : recent_articles = Flatten(ss)
    /\ readme_content = <<>>
    /\ update_result = "none"
    /\ runs = 0
    /\ readme_writes = 0
    /\ FilterIdle
    /\ FactoryIdle
    /\ MainIdle

NextSplice == Update

SpecSplice == InitSplice /\ [][NextSplice]_vars

-----------------------------------------------------------------------------
(* The README updater's claims.                                            *)

\* the number of places at which sub occurs in s
Occurrences(s, sub) ==
    Cardinality({i \in 0..(Len(s) - Len(sub)) : SubSeq(s, i + 1, i + Len(sub)) = sub})

\* the first start marker lies before the first end marker
MarkersInOrder(content) ==
    /\ Contains(content, start_marker)
    /\ Contains(content, end_marker)
    /\ Find(content, start_marker) < Find(content, end_marker)

\* the text before the first start marker, and the text after the first end marker
TextBefore(content) == SubSeq(content, 1, Find(content, start_marker))
TextAfter(content) ==
    SubSeq(content, Find(content, end_marker) + Len(end_marker) + 1, Len(content))

\* the Document invariant: one start marker, then one end marker
DocumentInv(content) ==
    /\ Occurrences(content, start_marker) = 1
    /\ Occurrences(content, end_marker) = 1
    /\ Find(content, start_marker) + Len(start_marker) <= Find(content, end_marker)

\* C1 (as claimed): for every README and every articles text on which update()
\* does not raise, updating the updated README again with the same articles text
\* yields the same README.
C1_Idempotent ==
    ~MarkersNotFound(readme) =>
        LET once == updated_content(readme, recent_articles)
        IN  /\ ~MarkersNotFound(once)
            /\ updated_content(once, recent_articles) = once

\* the same for a README that holds one start marker, then one end marker, and an
\* articles text that holds no end marker: there update() is idempotent
C1_IdempotentOnDocuments ==
    (DocumentInv(readme) /\ ~Contains(recent_articles, end_marker)) =>
        LET once == updated_content(readme, recent_articles)
        IN  /\ ~MarkersNotFound(once)
            /\ updated_content(once, recent_articles) = once

\* C2 (as claimed): whenever the content update() read lacks the start marker or
\* lacks the end marker, update() raises ValueError and the README is not written.
C2_MissingMarkerRaises ==
    (/\ runs > 0
     /\ \/ ~Contains(readme_content, start_marker)
        \/ ~Contains(readme_content, end_marker))
    => (update_result = "ValueError" /\ readme = readme_content)

\* C3 (as claimed): when the first start marker lies before the first end marker,
\* the written README is the text up to and including the start marker trimmed on
\* the right only, two newlines, the articles text trimmed, one newline, and the
\* text from the end marker on trimmed on the left only.
C3_TrimmedOneSide ==
    (update_result = "updated" /\ MarkersInOrder(readme_content)) =>
        readme = RStrip(TextBefore(readme_content) \o start_marker)
                 \o <<"\n", "\n">> \o Strip(recent_articles) \o <<"\n">>
                 \o LStrip(end_marker \o TextAfter(readme_content))

\* C3 (amended): when the first start marker lies before the first end marker, the
\* written README is the text before the start marker without its leading
\* whitespace, the start marker, two newlines, the articles text trimmed, one
\* newline, the end marker, and the text after the end marker without its
\* trailing whitespace.
C3_TrimmedBothSides ==
    (update_result = "updated" /\ MarkersInOrder(readme_content)) =>
        readme = LStrip(TextBefore(readme_content)) \o start_marker
                 \o <<"\n", "\n">> \o Strip(recent_articles) \o <<"\n">>
                 \o end_marker \o RStrip(TextAfter(readme_content))

\* an update that removed leading whitespace of the README and kept the rest
C3_Witness ==
    /\ update_result = "updated"
    /\ MarkersInOrder(readme_content)
    /\ Len(TextBefore(readme_content)) > 1
    /\ Head(readme_content) \in Whitespace
    /\ LStrip(TextBefore(readme_content)) # <<>>
    /\ Strip(recent_articles) # <<>>

\* C10: when the content update() read holds exactly one start marker followed by
\* exactly one end marker, and the articles text holds neither marker, update()
\* does not raise for a missing marker and the README it writes again holds
\* exactly one start marker followed by exactly one end marker.
C10_DocumentInvPreserved ==
    (/\ runs > 0
     /\ DocumentInv(readme_content)
     /\ ~Contains(recent_articles, start_marker)
     /\ ~Contains(recent_articles, end_marker))
    => /\ update_result # "ValueError"
       /\ DocumentInv(readme)

\* a second update of a well-formed README that replaced text between the markers
C10_Witness ==
    /\ runs = 2
    /\ update_result = "updated"
    /\ DocumentInv(readme_content)
    /\ recent_articles = <<"x">>
    /\ TextBefore(readme_content) # <<>>
    /\ TextAfter(readme_content) # <<>>
    /\ DocumentInv(readme)

-----------------------------------------------------------------------------
(* ArticleFilter                                                           *)

\* dict.get(key, 0)
Get(x, key) == IF key \in DOMAIN x THEN x[key] ELSE 0

\* the sort key of line 87, and the order of tuples
SortKey(x) == <<Get(x, "positive_reactions_count"), Get(x, "comments_count")>>
KeyLess(a, b) == a[1] < b[1] \/ (a[1] = b[1] /\ a[2] < b[2])

\* sorted(..., reverse=True): descending by key, equal keys in their input order
RECURSIVE InsertDescending(_, _)
InsertDescending(x, done) ==
    IF done = <<>> THEN <<x>>
    ELSE IF KeyLess(SortKey(Head(done)), SortKey(x))
         THEN <<x>> \o done
         ELSE <<Head(done)>> \o InsertDescending(x, Tail(done))

RECURSIVE SortedDescending(_, _)
SortedDescending(todo, done) ==
    IF todo = <<>> THEN done
    ELSE SortedDescending(Tail(todo), InsertDescending(Head(todo), done))

\* sorted(...)[::-1]: ascending by key, equal keys in input order, then reversed
RECURSIVE InsertAscending(_, _)
InsertAscending(x, done) ==
    IF done = <<>> THEN <<x>>
    ELSE IF KeyLess(SortKey(x), SortKey(Head(done)))
         THEN <<x>> \o done
         ELSE <<Head(done)>> \o InsertAscending(x, Tail(done))

RECURSIVE SortedAscending(_, _)
SortedAscending(todo, done) ==
    IF todo = <<>> THEN done
    ELSE SortedAscending(Tail(todo), InsertAscending(Head(todo), done))

Reversed(s) == [i \in 1..Len(s) |-> s[Len(s) + 1 - i]]

get_top_articles_reversed(list, n) ==
    SliceTo(Reversed(SortedAscending(list, <<>>)), n)

get_top_articles(list, n) == SliceTo(SortedDescending(list, <<>>), n)

limit_articles(list, limit) == SliceTo(list, limit)

GetTopArticles ==
    /\ filter_op = "none"
    /\ filtered' = get_top_articles(articles, top_n)
    /\ filter_op' = "get_top_articles"
    /\ UNCHANGED <<articles, top_n, spliceVars, factoryVars, mainVars, readme_writes>>

LimitArticles ==
    /\ filter_op = "none"
    /\ filtered' = limit_articles(articles, top_n)
    /\ filter_op' = "limit_articles"
    /\ UNCHANGED <<articles, top_n, spliceVars, factoryVars, mainVars, readme_writes>>

\* what the two sources put in an article (lines 44 and 61-66)
RSSArticle(t) == [title |-> t, link |-> t]
DevToArticle(t, r, c) ==
    [title |-> t, link |-> t, positive_reactions_count |-> r, comments_count |-> c]

Titles == {<<"A">>, <<"B">>}
Metrics == {<<0, 0>>, <<0, 1>>, <<1, 0>>}
ArticlePool ==
    {RSSArticle(t) : t \in Titles}
    \cup {DevToArticle(t, m[1], m[2]) : t \in Titles, m \in Metrics}

\* a list holds at most this many articles
MaxArticles == 3
\* the count passed in lies between -MaxNegative and MaxCount
MaxCount == 4
MaxNegative == 2

SpliceIdle ==
    /\ readme = <<>> /\ readme_content = <<>> /\ recent_articles = <<>>
    /\ update_result = "none" /\ runs = 0 /\ readme_writes = 0

InitFilter ==
    /\ articles \in SeqsUpTo(ArticlePool, MaxArticles)
    /\ top_n \in (0 - MaxNegative)..MaxCount
    /\ filtered = <<>>
    /\ filter_op = "none"
    /\ SpliceIdle
    /\ FactoryIdle
    /\ MainIdle

NextFilter == GetTopArticles \/ LimitArticles

SpecFilter == InitFilter /\ [][NextFilter]_vars

\* the number of articles that sorted(..., reverse=True) puts before articles[i]:
\* those of greater key, and those of equal key that come earlier in the input
Rank(list, i) ==
    Cardinality({j \in 1..Len(list) :
        \/ KeyLess(SortKey(list[i]), SortKey(list[j]))
        \/ (SortKey(list[j]) = SortKey(list[i]) /\ j < i)})

\* C4: for n >= 0, get_top_articles returns min(n, len) articles, the k-th being
\* the input article that has k-1 articles before it in the order non-increasing
\* by (positive_reactions_count, comments_count) with absent metrics as 0 and
\* equal keys in input order; the input list is left as it was.
TopArticlesOf(list, n, result) ==
    /\ Len(result) = Min(n, Len(list))
    /\ \A k \in 1..Len(result) :
           \E i \in 1..Len(list) : Rank(list, i) = k - 1 /\ result[k] = list[i]

C4_TopArticles ==
    /\ []((filter_op = "get_top_articles" /\ top_n >= 0)
            => TopArticlesOf(articles, top_n, filtered))
    /\ [][articles' = articles]_vars

\* a call that had to reorder, to keep a tie in input order and to cut
C4_Witness ==
    /\ filter_op = "get_top_articles"
    /\ top_n = 2
    /\ Len(articles) = 3
    /\ SortKey(articles[1]) = <<0, 0>>
    /\ "comments_count" \notin DOMAIN articles[1]
    /\ SortKey(articles[2]) = <<1, 0>>
    /\ SortKey(articles[3]) = <<0, 0>>
    /\ articles[3] # articles[1]
    /\ filtered = <<articles[2], articles[1]>>

\* C5 (as claimed): for n <= 0, get_top_articles returns the empty list.
C5_NonPositiveIsEmpty ==
    (filter_op = "get_top_articles" /\ top_n <= 0) => filtered = <<>>

\* C6 (as claimed): limit_articles returns the first min(max(n, 0), len) articles.
C6_LimitIsPrefix ==
    filter_op = "limit_articles" =>
        filtered = SubSeq(articles, 1, Min(Max(top_n, 0), Len(articles)))

-----------------------------------------------------------------------------
(* DevToSource.extract_username_from_url and SourceFactory.create_source   *)

dev_to == <<"d", "e", "v", ".", "t", "o">>

\* the characters [\w\d] matches, among those a URL of the model is made of
WordChars == {"d", "e", "v", "t", "o", "a", "_", "1"}

None == [kind |-> "None"]
Str(s) == [kind |-> "str", value |-> s]
DevToSource(username) == [kind |-> "DevToSource", username |-> username]
RSSFeedSource(feed_url) == [kind |-> "RSSFeedSource", feed_url |-> feed_url]

\* where group 1 starts (0-based) when dev\.to\/@?([\w\d]+) matches at p, else -1:
\* the @ is taken when it is there, and giving it back cannot help, since the
\* group would then have to start at the @
GroupStart(s, p) ==
    LET q == p + Len(dev_to) + 1
        g == IF q < Len(s) /\ s[q + 1] = "@" THEN q + 1 ELSE q
    IN  IF /\ q <= Len(s)
           /\ SubSeq(s, p + 1, q) = dev_to \o <<"/">>
           /\ g < Len(s)
           /\ s[g + 1] \in WordChars
        THEN g ELSE -1

\* the longest run of word characters of s from g (0-based) on
WordRun(s, g) ==
    LET stop == {i \in (g + 1)..Len(s) : s[i] \notin WordChars}
        last == IF stop = {} THEN Len(s)
                ELSE (CHOOSE i \in stop : \A j \in stop : i <= j) - 1
    IN  SubSeq(s, g + 1, last)

\* re.search takes the leftmost position at which the pattern matches
extract_username_from_url(profile_url) ==
    LET at == {p \in 0..Len(profile_url) : GroupStart(profile_url, p) # -1}
    IN  IF at = {} THEN None
        ELSE LET p == CHOOSE p \in at : \A r \in at : p <= r
             IN  Str(WordRun(profile_url, GroupStart(profile_url, p)))

\* `if username:`
Truthy(x) == x.kind = "str" /\ x.value # <<>>

\* a factory that falls back to an RSS feed when no username is found
create_source_fallback(u) ==
    IF Contains(u, dev_to) /\ Truthy(extract_username_from_url(u))
    THEN DevToSource(extract_username_from_url(u).value)
    ELSE RSSFeedSource(u)

create_source(u) ==
    IF Contains(u, dev_to)
    THEN IF Truthy(extract_username_from_url(u))
         THEN DevToSource(extract_username_from_url(u).value)
         ELSE None
    ELSE RSSFeedSource(u)

CreateSource ==
    /\ source = [kind |-> "unset"]
    /\ source' = create_source(url)
    /\ UNCHANGED <<url, spliceVars, filterVars, mainVars, readme_writes>>

\* the pieces a URL of the model is made of
UrlPieces == {dev_to, <<"/">>, <<"@">>, <<"a">>, <<"_", "1">>, <<"-">>}
\* a URL is made of at most this many pieces
MaxUrlSegs == 4

InitFactory ==
    /\ \E ss \in SeqsUpTo(UrlPieces, MaxUrlSegs) : url = Flatten(ss)
    /\ source = [kind |-> "unset"]
    /\ SpliceIdle
    /\ FilterIdle
    /\ MainIdle

NextFactory == CreateSource

SpecFactory == InitFactory /\ [][NextFactory]_vars

\* the text of a URL after its first "dev.to/", and after an "@" that follows it
AfterDevTo(u) ==
    LET rest == SliceFrom(u, Find(u, dev_to \o <<"/">>) + Len(dev_to) + 1)
    IN  IF rest # <<>> /\ Head(rest) = "@" THEN Tail(rest) ELSE rest

\* C7: create_source returns exactly one of three things, and 'dev.to' decides
\* first: for a URL that contains 'dev.to', a DevToSource with the extracted
\* username when one can be extracted and None when none can, and never an
\* RSSFeedSource; for any other URL an RSSFeedSource for that URL.  A URL in which
\* a word character follows the first 'dev.to/' (and an '@', if there is one)
\* gives the DevToSource of the word that starts there; a URL that contains
\* 'dev.to' and no 'dev.to/' gives None.
C7_Classified ==
    source.kind # "unset" =>
        /\ source.kind \in {"DevToSource", "None", "RSSFeedSource"}
        /\ Contains(url, dev_to) =>
               /\ source.kind # "RSSFeedSource"
               /\ extract_username_from_url(url) = None => source = None
               /\ extract_username_from_url(url) # None =>
                      source = DevToSource(extract_username_from_url(url).value)
               /\ ~Contains(url, dev_to \o <<"/">>) => source = None
               /\ (/\ Contains(url, dev_to \o <<"/">>)
                   /\ AfterDevTo(url) # <<>>
                   /\ Head(AfterDevTo(url)) \in WordChars)
                  => source = DevToSource(WordRun(AfterDevTo(url), 0))
        /\ ~Contains(url, dev_to) => source = RSSFeedSource(url)

\* dev.to/@_1 gave the DevToSource of _1
C7_Witness ==
    /\ url = dev_to \o <<"/", "@", "_", "1">>
    /\ source = DevToSource(<<"_", "1">>)

-----------------------------------------------------------------------------
(* ArticleWriter.write_articles and main                                   *)

heading == <<"#", "#", " ", "A", "r", "t", "i", "c", "l", "e", "s", "\n", "\n">>

\* the line of line 109
Bullet(article) ==
    <<"-", " ", "[">> \o article.title \o <<"]", "(">> \o article.link \o <<")", "\n">>

\* what write_articles leaves in the file
written_articles(list) ==
    heading \o Flatten([i \in 1..Len(list) |-> Bullet(list[i])])

\* lines 161-162: a source per URL, those that are None dropped, order kept
RECURSIVE create_sources(_)
create_sources(urls) ==
    IF urls = <<>> THEN <<>>
    ELSE LET s == create_source(Head(urls))
         IN  (IF s = None THEN <<>> ELSE <<s>>) \o create_sources(Tail(urls))

\* a filter that ranks whatever the article type is
filter_by_type_any(src, list, limit, type) ==
    IF limit > 0 /\ src.kind = "DevToSource"
    THEN get_top_articles(list, limit)
    ELSE list

\* lines 170-171
filter_by_type(src, list, limit, type) ==
    IF type = "top" /\ limit > 0 /\ src.kind = "DevToSource"
    THEN get_top_articles(list, limit)
    ELSE list

\* what a source's fetch_articles() may return: a Dev.to article carries its
\* metrics, an article of an RSS feed does not
DevToFeed == {DevToArticle(<<"A">>, 0, 1), DevToArticle(<<"B">>, 1, 0)}
RSSFeed == {RSSArticle(<<"C">>), RSSArticle(<<"D">>)}
FeedOf(src) == IF src.kind = "DevToSource" THEN DevToFeed ELSE RSSFeed

\* the lists a fetch may return: some of the feed's articles in some order, each at
\* most once, and at most n of them
FetchedLists(src, n) ==
    {list \in SeqsUpTo(FeedOf(src), n) :
        \A i, j \in 1..Len(list) : i # j => list[i] # list[j]}

\* a fetch returns at most this many articles
MaxFetched == 2
\* main is given at most this many URLs
MaxFeedUrls == 2
\* main is given a limit between -MaxNegativeLimit and MaxLimit
MaxLimit == 2
MaxNegativeLimit == 1

CreateSources ==
    /\ pc = "start"
    /\ sources' = create_sources(feed_urls)
    /\ pc' = "fetch"
    /\ UNCHANGED <<feed_urls, article_limit, article_type, fetched, all_articles,
                   spliceVars, filterVars, factoryVars, readme_writes>>

\* one turn of the loop of lines 166-173, fetch_articles() returning
FetchArticles ==
    /\ pc = "fetch"
    /\ Len(fetched) < Len(sources)
    /\ LET src == sources[Len(fetched) + 1]
       IN  \E list \in FetchedLists(src, MaxFetched) :
               /\ fetched' = Append(fetched, list)
               /\ all_articles' =
                      all_articles \o filter_by_type(src, list, article_limit, article_type)
    /\ UNCHANGED <<feed_urls, article_limit, article_type, pc, sources,
                   spliceVars, filterVars, factoryVars, readme_writes>>

\* fetch_articles() raising: a failed request, a malformed feed
FetchRaises ==
    /\ pc = "fetch"
    /\ Len(fetched) < Len(sources)
    /\ pc' = "raised"
    /\ UNCHANGED <<feed_urls, article_limit, article_type, sources, fetched, all_articles,
                   spliceVars, filterVars, factoryVars, readme_writes>>

\* line 176, once the loop is over
LimitTotal ==
    /\ pc = "fetch"
    /\ Len(fetched) = Len(sources)
    /\ all_articles' = limit_articles(all_articles, article_limit)
    /\ pc' = "write"
    /\ UNCHANGED <<feed_urls, article_limit, article_type, sources, fetched,
                   spliceVars, filterVars, factoryVars, readme_writes>>

\* lines 179-180
WriteArticles ==
    /\ pc = "write"
    /\ recent_articles' = written_articles(all_articles)
    /\ pc' = "update"
    /\ UNCHANGED <<readme, readme_content, update_result, runs, filterVars, factoryVars,
                   feed_urls, article_limit, article_type, sources, fetched, all_articles,
                   readme_writes>>

\* lines 183-185 raising: the token refused, the repository not found
GithubRaises ==
    /\ pc = "update"
    /\ pc' = "raised"
    /\ UNCHANGED <<feed_urls, article_limit, article_type, sources, fetched, all_articles,
                   spliceVars, filterVars, factoryVars, readme_writes>>

\* line 187
UpdateReadme ==
    /\ pc = "update"
    /\ UpdateCall
    /\ pc' = IF update_result' = "updated" THEN "done" ELSE "raised"
    /\ UNCHANGED <<feed_urls, article_limit, article_type, sources, fetched, all_articles,
                   filterVars, factoryVars>>

\* the URLs main is given: a Dev.to profile, a dev.to URL with no username, a feed
FeedUrlPool ==
    {dev_to \o <<"/", "@", "a">>, dev_to \o <<"/">>, <<"a", "/", "_", "1">>}

\* the READMEs the repository may hold: with both markers, without the start
\* marker, without the end marker
ReadmePool ==
    {<<"x", " ">> \o start_marker \o <<" ", "x", " ">> \o end_marker \o <<" ", "x">>,
     <<"x", " ">> \o end_marker,
     <<"x", " ">> \o start_marker}

Init ==
    /\ feed_urls \in SeqsUpTo(FeedUrlPool, MaxFeedUrls)
    /\ article_limit \in (0 - MaxNegativeLimit)..MaxLimit
    /\ article_type \in {"top", "recent"}
    /\ pc = "start"
    /\ sources = <<>>
    /\ fetched = <<>>
    /\ all_articles = <<>>
    /\ readme \in ReadmePool
    /\ readme_content = <<>>
    /\ recent_articles = <<>>
    /\ update_result = "none"
    /\ runs = 0
    /\ readme_writes = 0
    /\ FilterIdle
    /\ FactoryIdle

Next ==
    \/ CreateSources
    \/ FetchArticles
    \/ FetchRaises
    \/ LimitTotal
    \/ WriteArticles
    \/ GithubRaises
    \/ UpdateReadme

Spec == Init /\ [][Next]_vars

\* C8 (as claimed): the README is written at most once, and only after every
\* source was fetched and the aggregate written out; a run in which a fetch
\* raised, or in which the README read lacks a marker, has raised and has not
\* written the README; a run that raised takes no further step.
C8_WriteOnlyOnSuccess ==
    /\ readme_writes <= 1
    /\ readme_writes = 1 =>
           /\ Len(fetched) = Len(sources)
           /\ recent_articles = written_articles(all_articles)
    /\ pc = "raised" => readme_writes = 0 /\ ~ENABLED Next
    /\ (/\ runs > 0
        /\ \/ ~Contains(readme_content, start_marker)
           \/ ~Contains(readme_content, end_marker))
       => (pc = "raised" /\ readme_writes = 0 /\ readme = readme_content)

\* the statement of C8 without its case of a missing marker
C8_WithoutMarkerCase ==
    /\ readme_writes <= 1
    /\ readme_writes = 1 =>
           /\ Len(fetched) = Len(sources)
           /\ recent_articles = written_articles(all_articles)
    /\ pc = "raised" => readme_writes = 0 /\ ~ENABLED Next

\* the concatenation C9 speaks of: URL by URL, nothing for a URL the factory
\* gives no source for, else the next fetched list, ranked and cut to the limit
\* when the source is a DevToSource, the type is "top" and the limit is positive
RECURSIVE Contributions(_, _, _, _)
Contributions(urls, lists, limit, type) ==
    IF urls = <<>> \/ lists = <<>> THEN <<>>
    ELSE IF create_source(Head(urls)) = None
         THEN Contributions(Tail(urls), lists, limit, type)
         ELSE (IF create_source(Head(urls)).kind = "DevToSource" /\ type = "top" /\ limit > 0
               THEN get_top_articles(Head(lists), limit)
               ELSE Head(lists))
              \o Contributions(Tail(urls), Tail(lists), limit, type)

\* C9: the aggregate main writes out is limit_articles of the concatenation, in
\* URL order and skipping the URLs the factory gives no source for, of each
\* source's fetched list, ranked by get_top_articles when the source is a
\* DevToSource, the type is "top" and the limit is positive, and as fetched
\* otherwise.
C9_Aggregate ==
    pc \in {"update", "done"} =>
        /\ Len(fetched) = Cardinality({i \in 1..Len(feed_urls) :
                                          create_source(feed_urls[i]) # None})
        /\ all_articles =
               limit_articles(Contributions(feed_urls, fetched, article_limit, article_type),
                              article_limit)
        /\ recent_articles = written_articles(all_articles)

\* a finished run over a Dev.to profile and an RSS feed: the profile's two
\* articles were ranked into the other order, and the limit cut the feed's
\* article off the aggregate
C9_Witness ==
    /\ pc = "done"
    /\ article_type = "top"
    /\ article_limit = 2
    /\ Len(feed_urls) = 2
    /\ Len(fetched) = 2
    /\ sources[1].kind = "DevToSource"
    /\ sources[2].kind = "RSSFeedSource"
    /\ Len(fetched[1]) = 2
    /\ Len(fetched[2]) = 1
    /\ all_articles = <<fetched[1][2], fetched[1][1]>>
    /\ fetched[1][1] # fetched[1][2]

====
